---- MODULE Spec2Model ----
(***************************************************************************)
(* Verification model of the CoNLL-U ingestion pipeline:                   *)
(*   conllu_processor.py  CoNLLUProcessor (line parser, filters, counters) *)
(*   Mapper.py            Mapper (tag <-> id tables)                        *)
(* A line is a sequence of one-character strings, so that str.strip and    *)
(* str.split are computed on characters as Python computes them.           *)
(***************************************************************************)
EXTENDS Integers, Sequences, FiniteSets, TLC

(* ------------------------------ bounds --------------------------------- *)
MaxLines == 3      \* lines per input file
MaxMSL == 2        \* max_sentence_length arguments are 1..MaxMSL
MaxLoads == 2      \* load_conllu_file calls per behaviour of SpecReload
MaxTargets == 2    \* length of the lists handed to Mapper
MaxSents == 2      \* sentences of the training corpus handed to the encoder
MaxSentLen == 2    \* tokens per sentence of that corpus
MaxOver == 2       \* sequences handed to the padding are up to this much
                   \*   longer than the padded length

\* units of the tagger's output layer: the class indices are 0..NumClasses-1
NumClasses == 19

(* --------------------------- str primitives ---------------------------- *)
\* characters str.strip() removes (those of them that occur in the inputs)
Whitespace == {" ", "\t", "\n"}

RECURSIVE lstrip(_)
lstrip(s) ==
  IF s # <<>> /\ Head(s) \in Whitespace THEN lstrip(Tail(s)) ELSE s

RECURSIVE rstrip(_)
rstrip(s) ==
  IF s # <<>> /\ s[Len(s)] \in Whitespace
    THEN rstrip(SubSeq(s, 1, Len(s) - 1)) ELSE s

\* str.strip()
strip(s) == rstrip(lstrip(s))

\* c in s
Contains(s, c) == \E k \in 1..Len(s) : s[k] = c

\* s.startswith(c) for a one-character prefix
startswith(s, c) == s # <<>> /\ Head(s) = c

\* s.split(sep): the fields between the separators, empty fields included
RECURSIVE split(_, _)
split(s, sep) ==
  IF ~Contains(s, sep) THEN <<s>>
  ELSE LET k == CHOOSE j \in 1..Len(s) :
                  s[j] = sep /\ \A m \in 1..(j - 1) : s[m] # sep
       IN <<SubSeq(s, 1, k - 1)>> \o split(SubSeq(s, k + 1, Len(s)), sep)

RECURSIVE join(_, _)
\* sep.join(fields)
join(fields, sep) ==
  IF Len(fields) = 0 THEN <<>>
  ELSE IF Len(fields) = 1 THEN fields[1]
  ELSE LET h == Len(fields) \div 2
       IN join(SubSeq(fields, 1, h), sep) \o <<sep>>
            \o join(SubSeq(fields, h + 1, Len(fields)), sep)

(* --------------------------- CoNLLUProcessor --------------------------- *)
\* Python's None, as returned by _parse_token_line (a token is a pair)
None == <<>>

DefaultMaxLen == 128

\* CoNLLUProcessor.__init__
NewSelf ==
  [sentences |-> <<>>, raw_sentences |-> <<>>,
   removed_multiword_count |-> 0, removed_empty_nodes |-> 0,
   removed_long_sentences |-> 0, total_sentences_processed |-> 0,
   max_sentence_length |-> DefaultMaxLen]

_is_multiword_token(token_id) ==
  Contains(token_id, "-") /\ ~startswith(token_id, "#")

_is_empty_node(token_id) == Contains(token_id, ".")

\* _parse_token_line with the empty-node test before the multiword test
_parse_token_line_dot_first(slf, line) ==
  LET parts == split(line, "\t") IN
  IF Len(parts) # 10 THEN [self |-> slf, ret |-> None]
  ELSE
    LET token_id == parts[1]
        word_form == parts[2]
        upos_tag == parts[4]
    IN IF _is_empty_node(token_id)
         THEN [self |-> [slf EXCEPT !.removed_empty_nodes = @ + 1],
               ret |-> None]
       ELSE IF _is_multiword_token(token_id)
         THEN [self |-> [slf EXCEPT !.removed_multiword_count = @ + 1],
               ret |-> None]
       ELSE IF word_form = <<>> \/ upos_tag = <<>> \/ upos_tag = <<"_">>
         THEN [self |-> slf, ret |-> None]
       ELSE [self |-> slf, ret |-> <<word_form, upos_tag>>]

\* _parse_token_line without the test for the placeholder tag
_parse_token_line_no_placeholder(slf, line) ==
  LET parts == split(line, "\t") IN
  IF Len(parts) # 10 THEN [self |-> slf, ret |-> None]
  ELSE
    LET token_id == parts[1]
        word_form == parts[2]
        upos_tag == parts[4]
    IN IF _is_multiword_token(token_id)
         THEN [self |-> [slf EXCEPT !.removed_multiword_count = @ + 1],
               ret |-> None]
       ELSE IF _is_empty_node(token_id)
         THEN [self |-> [slf EXCEPT !.removed_empty_nodes = @ + 1],
               ret |-> None]
       ELSE IF word_form = <<>> \/ upos_tag = <<>>
         THEN [self |-> slf, ret |-> None]
       ELSE [self |-> slf, ret |-> <<word_form, upos_tag>>]

\* _parse_token_line(self, line): the processor after the call and the
\* returned value
_parse_token_line(slf, line) ==
  LET parts == split(line, "\t") IN
  IF Len(parts) # 10 THEN [self |-> slf, ret |-> None]
  ELSE
    LET token_id == parts[1]
        word_form == parts[2]
        upos_tag == parts[4]
    IN IF _is_multiword_token(token_id)
         THEN [self |-> [slf EXCEPT !.removed_multiword_count = @ + 1],
               ret |-> None]
       ELSE IF _is_empty_node(token_id)
         THEN [self |-> [slf EXCEPT !.removed_empty_nodes = @ + 1],
               ret |-> None]
       ELSE IF word_form = <<>> \/ upos_tag = <<>> \/ upos_tag = <<"_">>
         THEN [self |-> slf, ret |-> None]
       ELSE [self |-> slf, ret |-> <<word_form, upos_tag>>]

\* _process_completed_sentence with the limit off by one
_process_completed_sentence_off_by_one(slf, sentence, raw_sentence) ==
  LET s1 == [slf EXCEPT !.total_sentences_processed = @ + 1] IN
  IF Len(sentence) > s1.max_sentence_length + 1
    THEN [s1 EXCEPT !.removed_long_sentences = @ + 1]
  ELSE IF Len(sentence) > 0
    THEN [s1 EXCEPT !.sentences = Append(@, sentence),
                    !.raw_sentences = Append(@, raw_sentence)]
  ELSE s1

\* _process_completed_sentence that drops a sentence of exactly the limit
_process_completed_sentence_ge(slf, sentence, raw_sentence) ==
  LET s1 == [slf EXCEPT !.total_sentences_processed = @ + 1] IN
  IF Len(sentence) >= s1.max_sentence_length
    THEN [s1 EXCEPT !.removed_long_sentences = @ + 1]
  ELSE IF Len(sentence) > 0
    THEN [s1 EXCEPT !.sentences = Append(@, sentence),
                    !.raw_sentences = Append(@, raw_sentence)]
  ELSE s1

\* _process_completed_sentence counting only the sentences it keeps
_process_completed_sentence_counts_kept(slf, sentence, raw_sentence) ==
  IF Len(sentence) > slf.max_sentence_length
    THEN [slf EXCEPT !.removed_long_sentences = @ + 1]
  ELSE IF Len(sentence) > 0
    THEN [slf EXCEPT !.total_sentences_processed = @ + 1,
                     !.sentences = Append(@, sentence),
                     !.raw_sentences = Append(@, raw_sentence)]
  ELSE slf

\* _process_completed_sentence(self, sentence, raw_sentence)
_process_completed_sentence(slf, sentence, raw_sentence) ==
  LET s1 == [slf EXCEPT !.total_sentences_processed = @ + 1] IN
  IF Len(sentence) > s1.max_sentence_length
    THEN [s1 EXCEPT !.removed_long_sentences = @ + 1]
  ELSE IF Len(sentence) > 0
    THEN [s1 EXCEPT !.sentences = Append(@, sentence),
                    !.raw_sentences = Append(@, raw_sentence)]
  ELSE s1

\* the loop body putting an accepted token in front of the accumulator
LoopBody_prepend(slf, cs, crs, rawline) ==
  LET line == strip(rawline) IN
  IF line = <<>> THEN
    IF cs # <<>>
      THEN [self |-> _process_completed_sentence(slf, cs, crs),
            current_sentence |-> <<>>, current_raw_sentence |-> <<>>]
      ELSE [self |-> slf, current_sentence |-> cs,
            current_raw_sentence |-> crs]
  ELSE IF startswith(line, "#") THEN
    [self |-> slf, current_sentence |-> cs,
     current_raw_sentence |-> Append(crs, line)]
  ELSE
    LET r == _parse_token_line(slf, line) IN
    IF r.ret # None
      THEN [self |-> r.self, current_sentence |-> <<r.ret>> \o cs,
            current_raw_sentence |-> Append(crs, line)]
      ELSE [self |-> r.self, current_sentence |-> cs,
            current_raw_sentence |-> crs]

\* one iteration of the for loop of _parse_conllu_content on the raw line:
\* the processor and the two accumulators after it
LoopBody(slf, cs, crs, rawline) ==
  LET line == strip(rawline) IN
  IF line = <<>> THEN
    IF cs # <<>>
      THEN [self |-> _process_completed_sentence(slf, cs, crs),
            current_sentence |-> <<>>, current_raw_sentence |-> <<>>]
      ELSE [self |-> slf, current_sentence |-> cs,
            current_raw_sentence |-> crs]
  ELSE IF startswith(line, "#") THEN
    [self |-> slf, current_sentence |-> cs,
     current_raw_sentence |-> Append(crs, line)]
  ELSE
    LET r == _parse_token_line(slf, line) IN
    IF r.ret # None
      THEN [self |-> r.self, current_sentence |-> Append(cs, r.ret),
            current_raw_sentence |-> Append(crs, line)]
      ELSE [self |-> r.self, current_sentence |-> cs,
            current_raw_sentence |-> crs]

\* the end of the loop without the flush of the accumulator
AfterLoop_no_flush(slf, cs, crs) == slf

\* the statement after the loop of _parse_conllu_content
AfterLoop(slf, cs, crs) ==
  IF cs # <<>> THEN _process_completed_sentence(slf, cs, crs) ELSE slf

\* _parse_conllu_content(self, lines) as a whole: the loop from the given
\* accumulators over the remaining lines, then the statement after it
RECURSIVE ParseFrom(_, _, _, _)
ParseFrom(slf, cs, crs, ls) ==
  IF ls = <<>> THEN AfterLoop(slf, cs, crs)
  ELSE LET r == LoopBody(slf, cs, crs, Head(ls))
       IN ParseFrom(r.self, r.current_sentence, r.current_raw_sentence,
                    Tail(ls))

_parse_conllu_content(slf, ls) == ParseFrom(slf, <<>>, <<>>, ls)

(* -------------------------------- Mapper -------------------------------- *)
\* the dict of map_ids numbered from 0, as enumerate() would number it
id_mapping_from_zero ==
  ("ADJ" :> 0) @@ ("ADP" :> 1) @@ ("ADV" :> 2) @@ ("AUX" :> 3) @@
  ("CCONJ" :> 4) @@ ("DET" :> 5) @@ ("INTJ" :> 6) @@ ("NOUN" :> 7) @@
  ("NUM" :> 8) @@ ("PART" :> 9) @@ ("PRON" :> 10) @@ ("PROPN" :> 11) @@
  ("PUNCT" :> 12) @@ ("SCONJ" :> 13) @@ ("SYM" :> 14) @@ ("VERB" :> 15) @@
  ("X" :> 16) @@ ("UNK" :> 18)

\* the dict of Mapper.map_ids
id_mapping ==
  ("ADJ" :> 1) @@ ("ADP" :> 2) @@ ("ADV" :> 3) @@ ("AUX" :> 4) @@
  ("CCONJ" :> 5) @@ ("DET" :> 6) @@ ("INTJ" :> 7) @@ ("NOUN" :> 8) @@
  ("NUM" :> 9) @@ ("PART" :> 10) @@ ("PRON" :> 11) @@ ("PROPN" :> 12) @@
  ("PUNCT" :> 13) @@ ("SCONJ" :> 14) @@ ("SYM" :> 15) @@ ("VERB" :> 16) @@
  ("X" :> 17) @@ ("UNK" :> 18)

\* the dict of map_pos with the entries of 17 and 18 exchanged
pos_mapping_swapped ==
  (1 :> "ADJ") @@ (2 :> "ADP") @@ (3 :> "ADV") @@ (4 :> "AUX") @@
  (5 :> "CCONJ") @@ (6 :> "DET") @@ (7 :> "INTJ") @@ (8 :> "NOUN") @@
  (9 :> "NUM") @@ (10 :> "PART") @@ (11 :> "PRON") @@ (12 :> "PROPN") @@
  (13 :> "PUNCT") @@ (14 :> "SCONJ") @@ (15 :> "SYM") @@ (16 :> "VERB") @@
  (17 :> "UNK") @@ (18 :> "X")

\* the dict of Mapper.map_pos
pos_mapping ==
  (1 :> "ADJ") @@ (2 :> "ADP") @@ (3 :> "ADV") @@ (4 :> "AUX") @@
  (5 :> "CCONJ") @@ (6 :> "DET") @@ (7 :> "INTJ") @@ (8 :> "NOUN") @@
  (9 :> "NUM") @@ (10 :> "PART") @@ (11 :> "PRON") @@ (12 :> "PROPN") @@
  (13 :> "PUNCT") @@ (14 :> "SCONJ") @@ (15 :> "SYM") @@ (16 :> "VERB") @@
  (17 :> "X") @@ (18 :> "UNK")

\* a call's outcome: the returned list, or the KeyError of a dict lookup
Returned(val) == [ok |-> TRUE, val |-> val]
KeyError == [ok |-> FALSE, val |-> <<>>]

\* Mapper.map_ids(targets)
map_ids(targets) ==
  IF \A i \in 1..Len(targets) : targets[i] \in DOMAIN id_mapping
    THEN Returned([i \in 1..Len(targets) |-> id_mapping[targets[i]]])
    ELSE KeyError

\* map_pos looking the ids up with a default, as dict.get(id, 'UNK') would
map_pos_with_default(targets) ==
  Returned([i \in 1..Len(targets) |->
              IF targets[i] \in DOMAIN pos_mapping
                THEN pos_mapping[targets[i]] ELSE "UNK"])

\* Mapper.map_pos(targets)
map_pos(targets) ==
  IF \A i \in 1..Len(targets) : targets[i] \in DOMAIN pos_mapping
    THEN Returned([i \in 1..Len(targets) |-> pos_mapping[targets[i]]])
    ELSE KeyError

\* Mapper.mapping(targets): map_ids of every list, a KeyError of one of them
\* ends the call
mapping(targets) ==
  IF \A i \in 1..Len(targets) : map_ids(targets[i]).ok
    THEN Returned([i \in 1..Len(targets) |-> map_ids(targets[i]).val])
    ELSE KeyError

\* Mapper.unmapping(targets)
unmapping(targets) ==
  IF \A i \in 1..Len(targets) : map_pos(targets[i]).ok
    THEN Returned([i \in 1..Len(targets) |-> map_pos(targets[i]).val])
    ELSE KeyError

(* ------------------------------- padding -------------------------------- *)
\* MAX_LEN of the encoding script, maxlen of MyTagger.padding
MAX_LEN == 128

Zeros(n) == [i \in 1..n |-> 0]
Min(a, b) == IF a < b THEN a ELSE b
\* s[:n] for n >= 0
Prefix(s, n) == SubSeq(s, 1, Min(n, Len(s)))
\* s[-n:] for n > 0
Suffix(s, n) == SubSeq(s, Len(s) - Min(n, Len(s)) + 1, Len(s))

\* one row of keras pad_sequences(sequences, maxlen, padding, truncating)
\* with value 0: the row starts as zeros, an empty sequence leaves it so,
\* the truncated sequence is written at the chosen end
PadRow(s, maxlen, padding, truncating) ==
  LET trunc == IF truncating = "pre" THEN Suffix(s, maxlen)
                                     ELSE Prefix(s, maxlen)
  IN IF Len(s) = 0 THEN Zeros(maxlen)
     ELSE IF padding = "post" THEN trunc \o Zeros(maxlen - Len(trunc))
     ELSE Zeros(maxlen - Len(trunc)) \o trunc

pad_sequences(sequences, maxlen, padding, truncating) ==
  [i \in 1..Len(sequences) |-> PadRow(sequences[i], maxlen, padding,
                                      truncating)]

\* the padding calls with the defaults of pad_sequences (padding='pre')
script_pad_defaults(sequences) ==
  pad_sequences(sequences, MAX_LEN, "pre", "pre")

\* the pad_sequences calls of the encoding script:
\* pad_sequences(ids, maxlen=MAX_LEN, padding='post', truncating='post')
script_pad(sequences) == pad_sequences(sequences, MAX_LEN, "post", "post")

\* MyTagger.padding(targets):
\* pad_sequences(targets, maxlen=128, padding="post"), truncating left at
\* its default 'pre'
padding(targets) == pad_sequences(targets, 128, "post", "pre")

(* --------------------- tokenizer and tag encoding ----------------------- *)
\* str.lower() on the letters of the words in use
UpperToLower == ("T" :> "t") @@ ("C" :> "c")
lower(w) ==
  [i \in 1..Len(w) |->
     IF w[i] \in DOMAIN UpperToLower THEN UpperToLower[w[i]] ELSE w[i]]

\* oov_token="<OOV>"
OOV == <<"<", "O", "O", "V", ">">>
\* the default of index_word.get(i, "<UNK>") and id2tag.get(i, "<UNK>")
UNKWord == <<"<", "U", "N", "K", ">">>

\* split_words_tags(sentences): X and y
WordsOf(sentences) ==
  [i \in 1..Len(sentences) |->
     [k \in 1..Len(sentences[i]) |-> sentences[i][k][1]]]
TagsOf(sentences) ==
  [i \in 1..Len(sentences) |->
     [k \in 1..Len(sentences[i]) |-> sentences[i][k][2]]]

RECURSIVE Concat(_)
Concat(ss) == IF ss = <<>> THEN <<>> ELSE Head(ss) \o Concat(Tail(ss))

\* keras Tokenizer(oov_token="<OOV>").fit_on_texts(X): every element of
\* every list is lowercased (lower=True) and counted; word_index numbers the
\* oov token 1 and then the words by falling count, words of equal count in
\* the order of their first occurrence (the sort is stable)
fit_on_texts(X) ==
  LET flat == Concat([i \in 1..Len(X) |->
                        [k \in 1..Len(X[i]) |-> lower(X[i][k])]])
      words == {flat[i] : i \in 1..Len(flat)}
      Count(w) == Cardinality({i \in 1..Len(flat) : flat[i] = w})
      FirstPos(w) == CHOOSE i \in 1..Len(flat) :
                       flat[i] = w /\ \A j \in 1..(i - 1) : flat[j] # w
      Before(v, w) == \/ Count(v) > Count(w)
                      \/ Count(v) = Count(w) /\ FirstPos(v) < FirstPos(w)
  IN [w \in words \cup {OOV} |->
        IF w = OOV THEN 1
        ELSE 2 + Cardinality({v \in words : Before(v, w)})]

\* word_tokenizer.texts_to_sequences(X): the index of the lowercased word,
\* that of the oov token for a word without index
texts_to_sequences(word_index, X) ==
  [i \in 1..Len(X) |->
     [k \in 1..Len(X[i]) |->
        IF lower(X[i][k]) \in DOMAIN word_index
          THEN word_index[lower(X[i][k])] ELSE word_index[OOV]]]

\* the tags of the corpora in the order sorted() gives them
SortedTags == <<"DET", "NOUN">>
IndexIn(seq, x) == CHOOSE i \in 1..Len(seq) : seq[i] = x

\* unique_tags = sorted(set(...)); tag2id = {tag: i for i, tag in
\* enumerate(unique_tags)}: the numbering starts at 0
tag2id_of(y) ==
  LET seen == {t \in {SortedTags[i] : i \in 1..Len(SortedTags)} :
                 \E i \in 1..Len(y) : \E k \in 1..Len(y[i]) : y[i][k] = t}
      InCorpus(t) == t \in seen
      unique_tags == SelectSeq(SortedTags, InCorpus)
  IN [t \in seen |-> IndexIn(unique_tags, t) - 1]

\* y_encoded = [[tag2id[tag] for tag in tags] for tags in y]
encode_tags(tag2id, y) ==
  [i \in 1..Len(y) |-> [k \in 1..Len(y[i]) |-> tag2id[y[i][k]]]]

\* index_word.get(i, "<UNK>"): index_word is word_index inverted
index_word_get(word_index, i) ==
  IF \E w \in DOMAIN word_index : word_index[w] = i
    THEN CHOOSE w \in DOMAIN word_index : word_index[w] = i
    ELSE UNKWord

\* id2tag.get(i, "<UNK>"): id2tag is tag2id inverted
id2tag_get(tag2id, i) ==
  IF \E t \in DOMAIN tag2id : tag2id[t] = i
    THEN CHOOSE t \in DOMAIN tag2id : tag2id[t] = i
    ELSE "<UNK>"

(* ---------------------------- ReadUDTreebank ---------------------------- *)
\* the length tested by remove_multi_empty
UDLimit == 128

\* pyconll Token.is_multiword() / is_empty_node(): a range id, a decimal id
is_multiword(token) == Contains(token.id, "-")
is_empty_node(token) == Contains(token.id, ".")

\* the inner loop of remove_multi_empty over one sentence: tokens and pos.
\* sentence.__len__() counts every token of the sentence, ranges and empty
\* nodes included
KeptOf(sentence) ==
  LET Keep(token) == /\ Len(sentence) < UDLimit
                     /\ ~(is_multiword(token) \/ is_empty_node(token))
  IN SelectSeq(sentence, Keep)

\* one iteration of the outer loop of remove_multi_empty: what it appends
\* to inputs and to targets
SentenceEntry(sentence) ==
  LET kept == KeptOf(sentence)
  IN [input |-> join([k \in 1..Len(kept) |-> kept[k].form], " "),
      target |-> [k \in 1..Len(kept) |-> kept[k].upos]]

(* ------------------------------ the inputs ------------------------------ *)
U == <<"_">>
\* a line of the file as file.readlines() returns it: ten columns
\* ID FORM LEMMA UPOS XPOS FEATS HEAD DEPREL DEPS MISC and the terminator
Rec(id, form, upos) ==
  join(<<id, form, U, upos, U, U, U, U, U, U>>, "\t") \o <<"\n">>

BlankLine == <<"\n">>
SpaceLine == <<" ", "\n">>
CommentLine == <<"#", "c", "\n">>
\* a comment whose text has ten tab-separated fields and a hyphen in the first
CommentRec == Rec(<<"#", "-">>, <<"a">>, <<"N">>)
Tok1 == Rec(<<"1">>, <<"a">>, <<"N">>)
Tok2 == Rec(<<"2">>, <<"b">>, <<"V">>)
MultiwordRec == Rec(<<"1", "-", "2">>, <<"a">>, <<"N">>)
EmptyNodeRec == Rec(<<"1", ".", "1">>, <<"b">>, <<"V">>)
\* a range of empty nodes: hyphen and dot at once
MultiEmptyRec == Rec(<<"1", ".", "1", "-", "2">>, <<"a">>, U)
NoFormRec == Rec(<<"3">>, <<>>, <<"N">>)
NoTagRec == Rec(<<"3">>, <<"a">>, <<>>)
PlaceholderTagRec == Rec(<<"3">>, <<"a">>, U)
\* nine columns
ShortLine == join(<<<<"1">>, <<"a">>, U, <<"N">>, U, U, U, U, U>>, "\t")
               \o <<"\n">>
\* ten columns, the last one (MISC) empty
EmptyMiscRec ==
  join(<<<<"1">>, <<"a">>, U, <<"N">>, U, U, U, U, U, <<>>>>, "\t")
    \o <<"\n">>
\* eleven columns, the first one empty
LeadingTabLine == <<"\t">> \o Tok2

LineSet ==
  {BlankLine, SpaceLine, CommentLine, CommentRec, Tok1, Tok2, MultiwordRec,
   EmptyNodeRec, MultiEmptyRec, NoFormRec, NoTagRec, PlaceholderTagRec,
   ShortLine, EmptyMiscRec, LeadingTabLine}

ReloadLineSet == {BlankLine, CommentLine, Tok1, Tok2, MultiwordRec,
                  EmptyNodeRec}

\* the files of at most MaxLines lines over a set of lines
Files(S) == UNION {[1..n -> S] : n \in 0..MaxLines}

(* ------------------------------ the state ------------------------------- *)
VARIABLES
  self,                  \* the CoNLLUProcessor instance the caller holds
  file,                  \* the content of the input file
  lines,                 \* _parse_conllu_content: its argument
  line_num,              \* _parse_conllu_content: lines consumed so far
  current_sentence,      \* _parse_conllu_content: token accumulator
  current_raw_sentence,  \* _parse_conllu_content: raw line accumulator
  pc,                    \* "idle", "parse", "done" (returned), "failed" (raised)
  calls_left,            \* load_conllu_file calls the caller still makes
  before,                \* <<self at the entry of the latest call>>
  first,                 \* <<self at the return of the first completed load>>
  m_op,                  \* Mapper: the method called, "none" without a caller
  m_arg,                 \* Mapper: the argument of the call
  m_ret,                 \* Mapper: the outcome of the call
  m_pc,                  \* Mapper: "idle", "call", "returned", "round" (the
                         \*   result of the first call went to the other method)
  m_src,                 \* Mapper: the argument of the first call, at "round"
  p_fn,                  \* padding: "script" (pad_sequences call of the
                         \*   encoding script) or "padding" (MyTagger.padding)
  p_seqs,                \* padding: the sequences handed in
  p_rows,                \* padding: the padded matrix
  p_unpadded,            \* padding: the rows cut back to the true lengths
  p_pc,                  \* padding: "idle", "call", "padded", "unpadded"
  e_train,               \* encoder: train_data, sentences of (word, tag)
  e_idx,                 \* encoder: sample_idx of the demo (from 1)
  e_word_index,          \* encoder: word_tokenizer.word_index
  e_tag2id,              \* encoder: tag2id
  e_ids,                 \* encoder: X_train_ids and y_train_ids
  e_padded,              \* encoder: X_train_padded and y_train_padded
  e_decoded,             \* encoder: decoded_words and decoded_tags
  e_pc,                  \* encoder: "idle", "loaded", "fitted", "mapped",
                         \*   "encoded", "padded", "decoded"
  ud_corpus,             \* remove_multi_empty: its argument
  ud_done,               \* remove_multi_empty: sentences consumed so far
  ud_inputs,             \* remove_multi_empty: inputs
  ud_targets,            \* remove_multi_empty: targets
  ud_pc                  \* remove_multi_empty: "idle", "loop", "returned"

proc_vars == <<self, file, lines, line_num, current_sentence,
               current_raw_sentence, pc, calls_left, before, first>>
mapper_vars == <<m_op, m_arg, m_ret, m_pc, m_src>>
pad_vars == <<p_fn, p_seqs, p_rows, p_unpadded, p_pc>>
enc_vars == <<e_train, e_idx, e_word_index, e_tag2id, e_ids, e_padded,
              e_decoded, e_pc>>
ud_vars == <<ud_corpus, ud_done, ud_inputs, ud_targets, ud_pc>>
vars == <<proc_vars, mapper_vars, pad_vars, enc_vars, ud_vars>>
\* what an action of one component leaves alone
not_proc_vars == <<mapper_vars, pad_vars, enc_vars, ud_vars>>
not_mapper_vars == <<proc_vars, pad_vars, enc_vars, ud_vars>>
not_pad_vars == <<proc_vars, mapper_vars, enc_vars, ud_vars>>
not_enc_vars == <<proc_vars, mapper_vars, pad_vars, ud_vars>>
not_ud_vars == <<proc_vars, mapper_vars, pad_vars, enc_vars>>

\* no load is asked of the processor
ProcIdle ==
  /\ self = NewSelf
  /\ file = <<>>
  /\ lines = <<>>
  /\ line_num = 0
  /\ current_sentence = <<>>
  /\ current_raw_sentence = <<>>
  /\ pc = "idle"
  /\ calls_left = 0
  /\ before = <<>>
  /\ first = <<>>

MapperIdle ==
  /\ m_op = "none"
  /\ m_arg = <<>>
  /\ m_ret = Returned(<<>>)
  /\ m_pc = "idle"
  /\ m_src = <<>>

PadIdle ==
  /\ p_fn = "none"
  /\ p_seqs = <<>>
  /\ p_rows = <<>>
  /\ p_unpadded = <<>>
  /\ p_pc = "idle"

NoIds == [X |-> <<>>, y |-> <<>>]
NoDecoded == [words |-> <<>>, tags |-> <<>>]
\* the encoder before its corpus is loaded or fitted
EncUnfitted ==
  /\ e_word_index = <<>>
  /\ e_tag2id = <<>>
  /\ e_ids = NoIds
  /\ e_padded = NoIds
  /\ e_decoded = NoDecoded

EncIdle ==
  /\ e_train = <<>>
  /\ e_idx = 0
  /\ e_pc = "idle"
  /\ EncUnfitted

UdIdle ==
  /\ ud_corpus = <<>>
  /\ ud_done = 0
  /\ ud_inputs = <<>>
  /\ ud_targets = <<>>
  /\ ud_pc = "idle"

\* the components other than the processor are not in use
NotProcIdle == MapperIdle /\ PadIdle /\ EncIdle /\ UdIdle
NotMapperIdle == ProcIdle /\ PadIdle /\ EncIdle /\ UdIdle
NotPadIdle == ProcIdle /\ MapperIdle /\ EncIdle /\ UdIdle
NotEncIdle == ProcIdle /\ MapperIdle /\ PadIdle /\ UdIdle
NotUdIdle == ProcIdle /\ MapperIdle /\ PadIdle /\ EncIdle

InitWith(S, n) ==
  /\ self = NewSelf
  /\ file \in Files(S)
  /\ lines = <<>>
  /\ line_num = 0
  /\ current_sentence = <<>>
  /\ current_raw_sentence = <<>>
  /\ pc = "idle"
  /\ calls_left = n
  /\ before = <<>>
  /\ first = <<>>
  /\ NotProcIdle

\* one load on a fresh processor
Init == InitWith(LineSet, 1)
\* several loads of the same file
InitReload == InitWith(ReloadLineSet, MaxLoads)

\* load_conllu_file up to the call of _parse_conllu_content: the limit is
\* stored, the file is opened and read
load_conllu_file(max_sentence_length) ==
  /\ pc # "parse"
  /\ calls_left > 0
  /\ calls_left' = calls_left - 1
  /\ before' = <<self>>
  /\ self' = [self EXCEPT !.max_sentence_length = max_sentence_length]
  /\ lines' = file
  /\ line_num' = 0
  /\ current_sentence' = <<>>
  /\ current_raw_sentence' = <<>>
  /\ pc' = "parse"
  /\ UNCHANGED <<file, first, not_proc_vars>>

\* load_conllu_file on a path that cannot be opened or read: the limit is
\* stored, open() or readlines() raises, the handler logs and re-raises
load_conllu_file_error(max_sentence_length) ==
  /\ pc # "parse"
  /\ calls_left > 0
  /\ calls_left' = calls_left - 1
  /\ before' = <<self>>
  /\ self' = [self EXCEPT !.max_sentence_length = max_sentence_length]
  /\ pc' = "failed"
  /\ UNCHANGED <<file, lines, line_num, current_sentence,
                 current_raw_sentence, first, not_proc_vars>>

Load == \E m \in 1..MaxMSL : load_conllu_file(m)

LoadError == \E m \in 1..MaxMSL : load_conllu_file_error(m)

\* one iteration of the loop of _parse_conllu_content
ParseLine ==
  /\ pc = "parse"
  /\ line_num < Len(lines)
  /\ LET r == LoopBody(self, current_sentence, current_raw_sentence,
                       lines[line_num + 1])
     IN /\ self' = r.self
        /\ current_sentence' = r.current_sentence
        /\ current_raw_sentence' = r.current_raw_sentence
  /\ line_num' = line_num + 1
  /\ UNCHANGED <<file, lines, pc, calls_left, before, first, not_proc_vars>>

\* the end of _parse_conllu_content and the return of load_conllu_file
ParseEnd ==
  /\ pc = "parse"
  /\ line_num = Len(lines)
  /\ self' = AfterLoop(self, current_sentence, current_raw_sentence)
  /\ pc' = "done"
  /\ first' = IF first = <<>> THEN <<self'>> ELSE first
  /\ UNCHANGED <<file, lines, line_num, current_sentence,
                 current_raw_sentence, calls_left, before, not_proc_vars>>

\* the caller replaces its processor by CoNLLUProcessor()
NewProcessor ==
  /\ pc \in {"done", "failed"}
  /\ calls_left > 0
  /\ self' = NewSelf
  /\ pc' = "idle"
  /\ UNCHANGED <<file, lines, line_num, current_sentence,
                 current_raw_sentence, calls_left, before, first,
                 not_proc_vars>>

Next == Load \/ LoadError \/ ParseLine \/ ParseEnd

Spec == Init /\ [][Next]_vars

NextReload == Load \/ LoadError \/ ParseLine \/ ParseEnd \/ NewProcessor

SpecReload == InitReload /\ [][NextReload]_vars

(* ----------------------------- Mapper calls ----------------------------- *)
\* the tags a caller passes: the keys of id_mapping, the placeholder and a
\* tag in the wrong case
TagInputs == DOMAIN id_mapping \cup {"_", "noun"}
\* the ids a caller passes: the class indices of the tagger's output layer
\* (0 is the padding value) and the one above them
IdInputs == 0..NumClasses
Lists(S) == UNION {[1..n -> S] : n \in 0..MaxTargets}
\* the elements of the lists of lists handed to mapping and unmapping
BatchTagInputs == {"DET", "UNK", "noun"}
BatchIdInputs == {0, 6, NumClasses}

\* a caller about to hand a list of tags to map_ids or a list of ids to
\* map_pos
InitMapper ==
  /\ NotMapperIdle
  /\ \/ m_op = "map_ids" /\ m_arg \in Lists(TagInputs)
     \/ m_op = "map_pos" /\ m_arg \in Lists(IdInputs)
     \/ m_op = "mapping" /\ m_arg \in Lists(Lists(BatchTagInputs))
     \/ m_op = "unmapping" /\ m_arg \in Lists(Lists(BatchIdInputs))
  /\ m_ret = Returned(<<>>)
  /\ m_pc = "call"
  /\ m_src = <<>>

\* mapper.map_ids(targets) on the caller's list
CallMapIds ==
  /\ m_pc = "call" /\ m_op = "map_ids"
  /\ m_ret' = map_ids(m_arg)
  /\ m_pc' = "returned"
  /\ UNCHANGED <<not_mapper_vars, m_op, m_arg, m_src>>

\* mapper.map_pos(targets) on the caller's list
CallMapPos ==
  /\ m_pc = "call" /\ m_op = "map_pos"
  /\ m_ret' = map_pos(m_arg)
  /\ m_pc' = "returned"
  /\ UNCHANGED <<not_mapper_vars, m_op, m_arg, m_src>>

\* mapper.mapping(targets) on the caller's list of lists
CallMapping ==
  /\ m_pc = "call" /\ m_op = "mapping"
  /\ m_ret' = mapping(m_arg)
  /\ m_pc' = "returned"
  /\ UNCHANGED <<not_mapper_vars, m_op, m_arg, m_src>>

\* mapper.unmapping(targets) on the caller's list of lists
CallUnmapping ==
  /\ m_pc = "call" /\ m_op = "unmapping"
  /\ m_ret' = unmapping(m_arg)
  /\ m_pc' = "returned"
  /\ UNCHANGED <<not_mapper_vars, m_op, m_arg, m_src>>

\* mapper.map_pos(mapper.map_ids(targets)): the second call
MapPosOfResult ==
  /\ m_pc = "returned" /\ m_op = "map_ids" /\ m_ret.ok
  /\ m_op' = "map_pos"
  /\ m_arg' = m_ret.val
  /\ m_ret' = map_pos(m_ret.val)
  /\ m_pc' = "round"
  /\ m_src' = m_arg
  /\ UNCHANGED not_mapper_vars

\* mapper.map_ids(mapper.map_pos(targets)): the second call
MapIdsOfResult ==
  /\ m_pc = "returned" /\ m_op = "map_pos" /\ m_ret.ok
  /\ m_op' = "map_ids"
  /\ m_arg' = m_ret.val
  /\ m_ret' = map_ids(m_ret.val)
  /\ m_pc' = "round"
  /\ m_src' = m_arg
  /\ UNCHANGED not_mapper_vars

NextMapper ==
  \/ CallMapIds \/ CallMapPos \/ CallMapping \/ CallUnmapping
  \/ MapPosOfResult \/ MapIdsOfResult

SpecMapper == InitMapper /\ [][NextMapper]_vars

(* ----------------------------- padding calls ---------------------------- *)
\* id sequences: 1, 2, .., n and the same with 0 at the odd places
Ramp(n) == [i \in 1..n |-> i]
ZeroRamp(n) == [i \in 1..n |-> IF i % 2 = 1 THEN 0 ELSE i]
PadInputs ==
  {Ramp(n) : n \in 0..(MAX_LEN + MaxOver)}
    \cup {ZeroRamp(n) : n \in 0..(MAX_LEN + MaxOver)}
    \cup {<<5, 9, 2>>, <<0, 0, 7>>}

\* a caller about to pad one sequence
InitPad ==
  /\ NotPadIdle
  /\ p_fn \in {"script", "padding"}
  /\ \E x \in PadInputs : p_seqs = <<x>>
  /\ p_rows = <<>>
  /\ p_unpadded = <<>>
  /\ p_pc = "call"

\* X_padded = pad_sequences(X_ids, maxlen=MAX_LEN, padding='post',
\*                          truncating='post')
ScriptPad ==
  /\ p_pc = "call" /\ p_fn = "script"
  /\ p_rows' = script_pad(p_seqs)
  /\ p_pc' = "padded"
  /\ UNCHANGED <<not_pad_vars, p_fn, p_seqs, p_unpadded>>

\* MyTagger.padding(targets)
TaggerPadding ==
  /\ p_pc = "call" /\ p_fn = "padding"
  /\ p_rows' = padding(p_seqs)
  /\ p_pc' = "padded"
  /\ UNCHANGED <<not_pad_vars, p_fn, p_seqs, p_unpadded>>

\* padded[:original_length] for every row
Unpad ==
  /\ p_pc = "padded"
  /\ p_unpadded' = [i \in 1..Len(p_rows) |-> Prefix(p_rows[i], Len(p_seqs[i]))]
  /\ p_pc' = "unpadded"
  /\ UNCHANGED <<not_pad_vars, p_fn, p_seqs, p_rows>>

NextPad == ScriptPad \/ TaggerPadding \/ Unpad

SpecPad == InitPad /\ [][NextPad]_vars

(* --------------------------- the encoding script ------------------------ *)
The == <<"T", "h", "e">>
the == <<"t", "h", "e">>
cat == <<"c", "a", "t">>
\* the (word, tag) pairs of the training corpus
TrainTokens == {<<The, "DET">>, <<the, "DET">>, <<cat, "NOUN">>}
TrainSentences == UNION {[1..n -> TrainTokens] : n \in 1..MaxSentLen}
TrainCorpora == UNION {[1..n -> TrainSentences] : n \in 1..MaxSents}

\* train_data as the parser returned it, and the sentence of the demo
InitEncoder ==
  /\ NotEncIdle
  /\ e_train \in TrainCorpora
  /\ e_idx \in 1..Len(e_train)
  /\ e_pc = "loaded"
  /\ EncUnfitted

\* word_tokenizer.fit_on_texts(X_train)
FitTokenizer ==
  /\ e_pc = "loaded"
  /\ e_word_index' = fit_on_texts(WordsOf(e_train))
  /\ e_pc' = "fitted"
  /\ UNCHANGED <<not_enc_vars, e_train, e_idx, e_tag2id, e_ids, e_padded,
                 e_decoded>>

\* unique_tags, tag2id, id2tag
MapTags ==
  /\ e_pc = "fitted"
  /\ e_tag2id' = tag2id_of(TagsOf(e_train))
  /\ e_pc' = "mapped"
  /\ UNCHANGED <<not_enc_vars, e_train, e_idx, e_word_index, e_ids,
                 e_padded, e_decoded>>

\* encode_sentences_and_tags(X_train, y_train, word_tokenizer, tag2id)
EncodeTrain ==
  /\ e_pc = "mapped"
  /\ e_ids' = [X |-> texts_to_sequences(e_word_index, WordsOf(e_train)),
               y |-> encode_tags(e_tag2id, TagsOf(e_train))]
  /\ e_pc' = "encoded"
  /\ UNCHANGED <<not_enc_vars, e_train, e_idx, e_word_index, e_tag2id,
                 e_padded, e_decoded>>

\* X_train_padded, y_train_padded
PadTrain ==
  /\ e_pc = "encoded"
  /\ e_padded' = [X |-> script_pad(e_ids.X), y |-> script_pad(e_ids.y)]
  /\ e_pc' = "padded"
  /\ UNCHANGED <<not_enc_vars, e_train, e_idx, e_word_index, e_tag2id,
                 e_ids, e_decoded>>

\* the demo: the rows of sample_idx cut to original_length and decoded
DecodeSample ==
  /\ e_pc = "padded"
  /\ LET original_length == Len(e_train[e_idx])
         word_ids_no_padding == Prefix(e_padded.X[e_idx], original_length)
         tag_ids_no_padding == Prefix(e_padded.y[e_idx], original_length)
     IN e_decoded' =
          [words |-> [k \in 1..Len(word_ids_no_padding) |->
                        index_word_get(e_word_index, word_ids_no_padding[k])],
           tags |-> [k \in 1..Len(tag_ids_no_padding) |->
                       id2tag_get(e_tag2id, tag_ids_no_padding[k])]]
  /\ e_pc' = "decoded"
  /\ UNCHANGED <<not_enc_vars, e_train, e_idx, e_word_index, e_tag2id,
                 e_ids, e_padded>>

NextEncoder ==
  FitTokenizer \/ MapTags \/ EncodeTrain \/ PadTrain \/ DecodeSample

SpecEncoder == InitEncoder /\ [][NextEncoder]_vars

(* ------------------------- remove_multi_empty calls --------------------- *)
\* pyconll tokens: a word, a multiword range, an empty node
WordToken == [id |-> <<"1">>, form |-> <<"a">>, upos |-> "NOUN"]
RangeToken == [id |-> <<"1", "-", "2">>, form |-> <<"a">>, upos |-> "_"]
EmptyToken == [id |-> <<"1", ".", "1">>, form |-> <<"b">>, upos |-> "VERB"]
\* sentences of n tokens: words only, a range first, an empty node last
AllWords(n) == [k \in 1..n |-> WordToken]
RangeFirst(n) == [k \in 1..n |-> IF k = 1 THEN RangeToken ELSE WordToken]
EmptyLast(n) == [k \in 1..n |-> IF k = n THEN EmptyToken ELSE WordToken]
UDLengths == {1, 2} \cup ((UDLimit - 1)..(UDLimit + MaxOver))
UDSentences ==
  {AllWords(n) : n \in UDLengths} \cup {RangeFirst(n) : n \in UDLengths}
    \cup {EmptyLast(n) : n \in UDLengths}
UDCorpora == UNION {[1..n -> UDSentences] : n \in 0..MaxSents}

\* remove_multi_empty(corpus) is called
InitUD ==
  /\ NotUdIdle
  /\ ud_corpus \in UDCorpora
  /\ ud_done = 0
  /\ ud_inputs = <<>>
  /\ ud_targets = <<>>
  /\ ud_pc = "loop"

\* one iteration of the outer loop
NextSentence ==
  /\ ud_pc = "loop"
  /\ ud_done < Len(ud_corpus)
  /\ LET entry == SentenceEntry(ud_corpus[ud_done + 1])
     IN /\ ud_inputs' = Append(ud_inputs, entry.input)
        /\ ud_targets' = Append(ud_targets, entry.target)
  /\ ud_done' = ud_done + 1
  /\ UNCHANGED <<not_ud_vars, ud_corpus, ud_pc>>

\* the arrays are built and returned
ReturnArrays ==
  /\ ud_pc = "loop"
  /\ ud_done = Len(ud_corpus)
  /\ ud_pc' = "returned"
  /\ UNCHANGED <<not_ud_vars, ud_corpus, ud_done, ud_inputs, ud_targets>>

NextUD == NextSentence \/ ReturnArrays

SpecUD == InitUD /\ [][NextUD]_vars

(* ------------------------- what the claims speak of --------------------- *)
\* the line the loop is about to read, as the parser sees it (stripped)
AtLine == pc = "parse" /\ line_num < Len(lines)
RawLine == lines[line_num + 1]
CurLine == strip(RawLine)
IsBlank(line) == line = <<>>
IsComment(line) == startswith(line, "#")
\* the step that reads a non-blank, non-comment line of ten fields
AtRecord ==
  /\ AtLine
  /\ ~IsBlank(CurLine) /\ ~IsComment(CurLine)
  /\ Len(split(CurLine, "\t")) = 10
RecId == split(CurLine, "\t")[1]
RecForm == split(CurLine, "\t")[2]
RecTag == split(CurLine, "\t")[4]
\* the step that finalizes the accumulated sentence
Finalizing ==
  /\ pc = "parse"
  /\ current_sentence # <<>>
  /\ IF line_num < Len(lines) THEN IsBlank(CurLine) ELSE TRUE
\* the step changes nothing of the processor and of the accumulators
SkipsLine ==
  /\ self' = self
  /\ current_sentence' = current_sentence
  /\ current_raw_sentence' = current_raw_sentence
KeptLengths == {Len(self.sentences[i]) : i \in 1..Len(self.sentences)}

(* -------------------------------- C1 ------------------------------------ *)
\* C1: after parsing with a fresh processor, every kept sentence has between
\* 1 and max_sentence_length tokens.
C1_KeptLengthWithinLimit ==
  \A i \in 1..Len(self.sentences) :
    /\ Len(self.sentences[i]) >= 1
    /\ Len(self.sentences[i]) <= self.max_sentence_length

\* a finished parse that kept a sentence of exactly the limit, above 1
C1_Witness ==
  /\ pc = "done"
  /\ self.max_sentence_length = 2
  /\ 2 \in KeptLengths

(* -------------------------------- C2 ------------------------------------ *)
\* C2: finalizing a sentence of more than max_sentence_length tokens adds 1
\* to removed_long_sentences and leaves the kept corpus as it was (nothing of
\* the sentence is appended); a sentence of exactly max_sentence_length
\* tokens is appended whole.
C2_LongSentenceDroppedWhole ==
  [][Finalizing =>
      /\ Len(current_sentence) > self.max_sentence_length =>
           /\ self'.removed_long_sentences = self.removed_long_sentences + 1
           /\ self'.sentences = self.sentences
           /\ self'.raw_sentences = self.raw_sentences
      /\ Len(current_sentence) = self.max_sentence_length =>
           /\ self'.removed_long_sentences = self.removed_long_sentences
           /\ self'.sentences = Append(self.sentences, current_sentence)]_vars

\* a finished parse whose only sentence was one token over the limit
C2_Witness ==
  /\ pc = "done"
  /\ Len(lines) = self.max_sentence_length + 1
  /\ self.removed_long_sentences = 1
  /\ self.total_sentences_processed = 1
  /\ self.sentences = <<>>

(* -------------------------------- C3 ------------------------------------ *)
\* C3: a ten-field record whose ID has a hyphen adds 1 to
\* removed_multiword_count and changes nothing else; otherwise one whose ID
\* has a dot adds 1 to removed_empty_nodes and changes nothing else; neither
\* is added to the sentence, whatever its form and tag; a record with a
\* plain ID changes neither counter.
C3_MultiwordAndEmptyNodeExcluded ==
  [][AtRecord =>
      IF Contains(RecId, "-")
        THEN /\ self' = [self EXCEPT !.removed_multiword_count = @ + 1]
             /\ current_sentence' = current_sentence
             /\ current_raw_sentence' = current_raw_sentence
      ELSE IF Contains(RecId, ".")
        THEN /\ self' = [self EXCEPT !.removed_empty_nodes = @ + 1]
             /\ current_sentence' = current_sentence
             /\ current_raw_sentence' = current_raw_sentence
      ELSE /\ self'.removed_multiword_count = self.removed_multiword_count
           /\ self'.removed_empty_nodes = self.removed_empty_nodes]_vars

\* a finished parse that met a range, an empty node and a plain token
C3_Witness ==
  /\ pc = "done"
  /\ self.removed_multiword_count = 1
  /\ self.removed_empty_nodes = 1
  /\ Len(self.sentences) = 1

(* -------------------------------- C4 ------------------------------------ *)
ValidToken(t) == t[1] # <<>> /\ t[2] # <<>> /\ t[2] # <<"_">>
\* C4: every token of every kept sentence (and of the accumulator) has a
\* non-empty form and a tag that is neither empty nor "_"; a ten-field
\* record with a plain ID that violates this is skipped: no counter changes
\* and the sentence under construction stays open.
C4_KeptTokensValid ==
  /\ [](/\ \A i \in 1..Len(self.sentences) :
             \A k \in 1..Len(self.sentences[i]) :
               ValidToken(self.sentences[i][k])
        /\ \A k \in 1..Len(current_sentence) :
             ValidToken(current_sentence[k]))
  /\ [][(/\ AtRecord
         /\ ~Contains(RecId, "-") /\ ~Contains(RecId, ".")
         /\ ~ValidToken(<<RecForm, RecTag>>)) => SkipsLine]_vars

\* a kept sentence of two tokens with an invalid record read between them
C4_Witness ==
  /\ pc = "done"
  /\ Len(lines) = 3
  /\ strip(lines[2]) = strip(PlaceholderTagRec)
  /\ 2 \in KeptLengths

(* -------------------------------- C5 ------------------------------------ *)
\* what treating fields as a token record does to the state
HandledAsRecord(fields) ==
  IF Contains(fields[1], "-")
    THEN /\ self' = [self EXCEPT !.removed_multiword_count = @ + 1]
         /\ current_sentence' = current_sentence
  ELSE IF Contains(fields[1], ".")
    THEN /\ self' = [self EXCEPT !.removed_empty_nodes = @ + 1]
         /\ current_sentence' = current_sentence
  ELSE IF ~ValidToken(<<fields[2], fields[4]>>) THEN SkipsLine
  ELSE /\ self' = self
       /\ current_sentence' = Append(current_sentence,
                                     <<fields[2], fields[4]>>)

\* C5: a non-blank, non-comment line of the input is treated as a token
\* record if and only if splitting that line on the tab character yields
\* exactly 10 fields; any other such line is skipped, the parse goes on and
\* the sentence under construction stays open.
C5_TenFieldsIffRecord ==
  [][(AtLine /\ ~IsBlank(CurLine) /\ ~IsComment(CurLine)) =>
      /\ pc' = "parse" /\ line_num' = line_num + 1
      /\ IF Len(split(RawLine, "\t")) = 10
           THEN HandledAsRecord(split(RawLine, "\t"))
           ELSE SkipsLine]_vars

(* -------------------------------- C6 ------------------------------------ *)
\* the token a line of the input contributes, None when it contributes none
TokenOf(rawline) ==
  LET line == strip(rawline)
      fields == split(line, "\t")
  IN IF IsBlank(line) \/ IsComment(line) \/ Len(fields) # 10 THEN None
     ELSE IF Contains(fields[1], "-") \/ Contains(fields[1], ".") THEN None
     ELSE IF ~ValidToken(<<fields[2], fields[4]>>) THEN None
     ELSE <<fields[2], fields[4]>>

IsToken(t) == t # None
ValidTokens(ls) == SelectSeq([i \in 1..Len(ls) |-> TokenOf(ls[i])], IsToken)

\* the blocks of lines between the blank lines
RECURSIVE BlocksOf(_)
BlocksOf(ls) ==
  IF \A i \in 1..Len(ls) : ~IsBlank(strip(ls[i])) THEN <<ls>>
  ELSE LET k == CHOOSE j \in 1..Len(ls) :
                  /\ IsBlank(strip(ls[j]))
                  /\ \A m \in 1..(j - 1) : ~IsBlank(strip(ls[m]))
       IN <<SubSeq(ls, 1, k - 1)>> \o BlocksOf(SubSeq(ls, k + 1, Len(ls)))

RECURSIVE Flatten(_)
Flatten(ss) == IF ss = <<>> THEN <<>> ELSE Head(ss) \o Flatten(Tail(ss))

RECURSIVE IsSubseq(_, _)
IsSubseq(a, b) ==
  IF a = <<>> THEN TRUE
  ELSE IF b = <<>> THEN FALSE
  ELSE IF Head(a) = Head(b) THEN IsSubseq(Tail(a), Tail(b))
  ELSE IsSubseq(a, Tail(b))

FitsLimit(s) == Len(s) >= 1 /\ Len(s) <= self.max_sentence_length
\* the blocks' token lists, in block order, without the empty and long ones
ExpectedCorpus(ls) ==
  SelectSeq([i \in 1..Len(BlocksOf(ls)) |-> ValidTokens(BlocksOf(ls)[i])],
            FitsLimit)

\* C6: the kept tokens, concatenated, are a subsequence of the input's valid
\* token records in input order, each token being (column 2, column 4) of
\* its record; the kept sentences are the blocks' token lists in the order
\* of the blocks.
C6_OrderPreservingProjection ==
  /\ pc = "parse" =>
       IsSubseq(Flatten(self.sentences) \o current_sentence,
                ValidTokens(SubSeq(lines, 1, line_num)))
  /\ pc = "done" =>
       /\ IsSubseq(Flatten(self.sentences), ValidTokens(lines))
       /\ self.sentences = ExpectedCorpus(lines)

\* a finished parse that kept two sentences with different tokens
C6_Witness ==
  /\ pc = "done"
  /\ Len(self.sentences) = 2
  /\ self.sentences[1] # self.sentences[2]

(* -------------------------------- C7 ------------------------------------ *)
Counters(slf) ==
  <<slf.total_sentences_processed, slf.removed_multiword_count,
    slf.removed_empty_nodes, slf.removed_long_sentences>>
\* the step hands the accumulator to _process_completed_sentence once
FinalizesOnce ==
  /\ self'.total_sentences_processed = self.total_sentences_processed + 1
  /\ Len(self'.sentences) + self'.removed_long_sentences
       = Len(self.sentences) + self.removed_long_sentences + 1
  /\ Len(self'.sentences) > Len(self.sentences) =>
       self'.sentences = Append(self.sentences, current_sentence)
\* the processor a load starts from
LoadStart == [before[1] EXCEPT !.max_sentence_length = self.max_sentence_length]

\* C7: a blank line with a non-empty accumulator finalizes one sentence and
\* resets the accumulator; a blank line with an empty accumulator changes
\* nothing; at the end of the input a non-empty accumulator is finalized
\* exactly once; the input followed by one more blank line gives the same
\* corpus and counters.
C7_BlankLinesAreBoundaries ==
  /\ [][(AtLine /\ IsBlank(CurLine)) =>
          IF current_sentence # <<>>
            THEN FinalizesOnce /\ current_sentence' = <<>>
                 /\ current_raw_sentence' = <<>>
            ELSE SkipsLine]_vars
  /\ [][(pc = "parse" /\ line_num = Len(lines)) =>
          /\ pc' = "done"
          /\ IF current_sentence # <<>> THEN FinalizesOnce
                                        ELSE self' = self]_vars
  /\ [](pc = "done" =>
          /\ self = _parse_conllu_content(LoadStart, lines)
          /\ LET more == _parse_conllu_content(LoadStart,
                                               lines \o <<BlankLine>>)
             IN /\ more.sentences = self.sentences
                /\ Counters(more) = Counters(self))

\* a finished parse of a file that does not end in a blank line and whose
\* last sentence was finalized at the end of the input
C7_Witness ==
  /\ pc = "done"
  /\ Len(lines) = 3
  /\ ~IsBlank(strip(lines[3]))
  /\ IsBlank(strip(lines[2]))
  /\ Len(self.sentences) = 2

(* -------------------------------- C8 ------------------------------------ *)
\* C8: after a second load of the same file with the same
\* max_sentence_length, on a fresh processor or on the same one, the kept
\* corpus and the four counters equal their values after the first load.
C8_ReloadGivesSameResult ==
  (/\ pc = "done"
   /\ first # <<>>
   /\ self.max_sentence_length = first[1].max_sentence_length) =>
     /\ self.sentences = first[1].sentences
     /\ Counters(self) = Counters(first[1])

(* -------------------------------- C9 ------------------------------------ *)
\* C9: when load_conllu_file fails because the file cannot be opened or
\* read, every field of the processor has the value it had before the call.
C9_FailedLoadLeavesProcessor ==
  pc = "failed" => self = before[1]

(* -------------------------------- C10 ----------------------------------- *)
\* C10: map_pos(map_ids([t])) == [t] for every tag map_ids defines, and
\* map_ids(map_pos([i])) == [i] for every id map_pos defines: the second
\* call succeeds and returns the first call's argument; DET maps to 6 and
\* NOUN to 8.
C10_TablesMutuallyInverse ==
  /\ m_pc = "round" => (m_ret.ok /\ m_ret.val = m_src)
  /\ (m_pc = "returned" /\ m_op = "map_ids" /\ m_arg = <<"DET", "NOUN">>) =>
       m_ret = Returned(<<6, 8>>)

\* the round trip of the list [UNK, X] through map_ids and map_pos is done
C10_Witness ==
  /\ m_pc = "round"
  /\ m_op = "map_pos"
  /\ m_src = <<"UNK", "X">>
  /\ m_arg = <<18, 17>>

(* -------------------------------- C11 ----------------------------------- *)
Elems(l) == {l[i] : i \in 1..Len(l)}
FirstCallOf(op) == m_pc = "returned" /\ m_op = op
\* the closed tag set is bound to 1..last, UNK to unk, nothing to 0
TagSpaceIs(last, unk) ==
  /\ (FirstCallOf("map_ids") /\ m_arg = <<"UNK">>) =>
       m_ret = Returned(<<unk>>)
  /\ (FirstCallOf("map_pos") /\ m_arg = <<unk>>) =>
       m_ret = Returned(<<"UNK">>)
  /\ (FirstCallOf("map_ids") /\ m_ret.ok) =>
       \A i \in 1..Len(m_arg) :
         /\ m_arg[i] # "UNK" => m_ret.val[i] \in 1..last
         /\ m_ret.val[i] # 0
  /\ (FirstCallOf("map_pos") /\ 0 \in Elems(m_arg)) => ~m_ret.ok

C12_UndefinedKeyRaises ==
  /\ (FirstCallOf("map_ids") /\ Elems(m_arg) \ DOMAIN id_mapping # {}) =>
       m_ret = KeyError
  /\ (FirstCallOf("map_pos") /\ Elems(m_arg) \ DOMAIN pos_mapping # {}) =>
       m_ret = KeyError
  /\ (FirstCallOf("mapping")
      /\ \E i \in 1..Len(m_arg) : Elems(m_arg[i]) \ DOMAIN id_mapping # {}) =>
       m_ret = KeyError
  /\ (FirstCallOf("unmapping")
      /\ \E i \in 1..Len(m_arg) : Elems(m_arg[i]) \ DOMAIN pos_mapping # {}) =>
       m_ret = KeyError

\* unmapping has met the padding id in the second list of its argument
C12_Witness ==
  /\ FirstCallOf("unmapping")
  /\ Len(m_arg) = 2
  /\ m_arg[1] = <<6>>
  /\ m_arg[2] = <<6, 0>>

(* -------------------------------- C13 ----------------------------------- *)
\* C13: every padding operation yields rows of exactly 128 elements with
\* the content left-aligned: a sequence of length >= 128 becomes its first
\* 128 elements, a shorter one is followed only by 0s; for the pad_sequences
\* calls of the encoding script and for MyTagger.padding.
C13_RowsLeftAligned ==
  p_pc \in {"padded", "unpadded"} =>
    \A i \in 1..Len(p_seqs) :
      /\ Len(p_rows[i]) = MAX_LEN
      /\ IF Len(p_seqs[i]) >= MAX_LEN
           THEN p_rows[i] = SubSeq(p_seqs[i], 1, MAX_LEN)
           ELSE p_rows[i] = p_seqs[i] \o Zeros(MAX_LEN - Len(p_seqs[i]))

(* -------------------------------- C14 ----------------------------------- *)
\* C14: for a sequence x of at most 128 elements, padding x and taking the
\* first len(x) elements of the padded row gives x back, also when x holds
\* the value 0.
C14_PadUnpadRoundTrip ==
  p_pc = "unpadded" =>
    \A i \in 1..Len(p_seqs) :
      Len(p_seqs[i]) <= MAX_LEN => p_unpadded[i] = p_seqs[i]

\* the round trip of [0, 0, 7] through the script's padding is done
C14_Witness ==
  /\ p_pc = "unpadded"
  /\ p_fn = "script"
  /\ p_seqs = <<<<0, 0, 7>>>>
  /\ p_rows[1] = <<0, 0, 7>> \o Zeros(MAX_LEN - 3)

(* -------------------------------- C15 ----------------------------------- *)
\* C15: for any training sentence, encoding its words and tags, padding,
\* cutting back to the original length and decoding with index_word and
\* id2tag gives the original word list and the original tag list.
C15_EncodeDecodeRoundTrip ==
  e_pc = "decoded" =>
    /\ e_decoded.words = WordsOf(e_train)[e_idx]
    /\ e_decoded.tags = TagsOf(e_train)[e_idx]

(* -------------------------------- C16 ----------------------------------- *)
\* C16: in the padded tag matrix the value 0 stands only at padding
\* positions: the tag ID at every position of a real token is >= 1.
C16_ZeroOnlyAtPadding ==
  e_pc \in {"padded", "decoded"} =>
    \A i \in 1..Len(e_train) :
      \A k \in 1..Len(e_train[i]) : e_padded.y[i][k] >= 1

(* -------------------------------- C17 ----------------------------------- *)
IsWord(token) == ~(is_multiword(token) \/ is_empty_node(token))
WordTags(sentence) ==
  LET words == SelectSeq(sentence, IsWord)
  IN [k \in 1..Len(words) |-> words[k].upos]
\* C17: every entry remove_multi_empty returns holds between 1 and 128
\* tokens; a corpus sentence over the limit contributes no entry; a sentence
\* of exactly 128 tokens is retained with all its tokens that are neither
\* multiword ranges nor empty nodes.
C17_EntriesWithinLimit ==
  ud_pc = "returned" =>
    /\ \A i \in 1..Len(ud_targets) :
         Len(ud_targets[i]) >= 1 /\ Len(ud_targets[i]) <= UDLimit
    /\ Len(ud_targets)
         <= Cardinality({j \in 1..Len(ud_corpus) :
                           Len(ud_corpus[j]) <= UDLimit})
    /\ \A j \in 1..Len(ud_corpus) :
         Len(ud_corpus[j]) = UDLimit =>
           \E i \in 1..Len(ud_targets) :
             ud_targets[i] = WordTags(ud_corpus[j])

(* -------------------------------- C18 ----------------------------------- *)
\* the step is taken on the processor the caller already held
SameProcessor == pc' # "idle"
\* C18: in every state reached by parse steps and load_conllu_file calls on
\* one processor, total_sentences_processed == len(sentences) +
\* removed_long_sentences and len(raw_sentences) == len(sentences); the
\* four counters never decrease.
C18_CountersAccountForSentences ==
  /\ [](/\ self.total_sentences_processed
             = Len(self.sentences) + self.removed_long_sentences
        /\ Len(self.raw_sentences) = Len(self.sentences))
  /\ [][SameProcessor =>
          \A k \in 1..4 : Counters(self')[k] >= Counters(self)[k]]_vars

\* a second load on the same processor has kept a sentence and dropped one
C18_Witness ==
  /\ pc = "done"
  /\ first # <<>>
  /\ self.total_sentences_processed > first[1].total_sentences_processed
  /\ self.removed_long_sentences >= 1
  /\ Len(self.sentences) >= 1

(* -------------------------------- C19 ----------------------------------- *)
\* the blocks of the input whose tokens make a kept sentence, in order
KeptBlock(b) == FitsLimit(ValidTokens(b))
KeptBlocks(ls) == SelectSeq(BlocksOf(ls), KeptBlock)
StrippedLines(b) == [k \in 1..Len(b) |-> strip(b[k])]
\* C19: for every kept sentence i, raw_sentences[i] holds only lines
\* (comments and accepted token lines) of the block of the input that the
\* tokens of sentences[i] come from; the comments of a block without kept
\* token are not attached to a later sentence.
C19_RawLinesFromOwnBlock ==
  pc = "done" =>
    /\ Len(self.raw_sentences) = Len(KeptBlocks(lines))
    /\ \A i \in 1..Len(self.raw_sentences) :
         IsSubseq(self.raw_sentences[i], StrippedLines(KeptBlocks(lines)[i]))

====
